---- MODULE Spec2Model ----
(***************************************************************************)
(* Model of the bulk PDF OCR pipeline of app.py: pdf_to_images,            *)
(* extract_text_with_claude and the processing run of main() (upload cap,  *)
(* document loop, page loop, report entries, CSV and full-text views).     *)
(*                                                                         *)
(* Texts are sequences of one-character strings, so slicing, length,      *)
(* concatenation and str.replace are computed as Python computes them.     *)
(* One run of main() after login and API-key entry is modelled.  The file  *)
(* list is revealed one file at a time when the document loop reaches it:  *)
(* main() reads file idx only in iteration idx, so this gives the same     *)
(* behaviours as fixing the whole list at upload time.                     *)
(***************************************************************************)
EXTENDS Integers, Sequences, FiniteSets, TLC

\* ------------------------------------------------------------------ bounds
\* Total number of pages in the files uploaded for one run.
MaxCalls == 3
\* Runs of more than MaxDocs files are explored with BigRunPages pages in all.
MaxDocs == 3
BigRunPages == 1

\* ------------------------------------------------------- program constants
\* len(uploaded_files) > 5 is rejected.
MaxFiles == 5
\* pdf_text[:500] / len(pdf_text) > 500.
PreviewCap == 500

\* One more file than the cap can be selected in the uploader.
MaxUpload == MaxFiles + 1

\* Filenames the uploader can deliver (two files may carry the same name).
Filenames == {"a.pdf", "b.pdf"}

\* ------------------------------------------------------------------- texts
Ellipsis == <<".", ".", ".">>

ErrorPrefix ==
  <<"E","r","r","o","r"," ","p","r","o","c","e","s","s","i","n","g"," ",
    "i","m","a","g","e",":"," ">>

\* str(e) of the exception raised by client.messages.create.
ExcDetail == <<"4", "0", "1">>

\* The text of a successful model response: it contains three dots of its
\* own, and is sized so that a two-page document with one successful and one
\* failed page has exactly PreviewCap characters (two successful pages
\* exceed the cap, one page alone stays below it).
OkLen == PreviewCap - 61
OkText == [i \in 1..OkLen |-> IF i \in 2..4 THEN "." ELSE "x"]

\* What the API call can do: return text, or raise.
ApiOutcomes == {"ok", "raise"}

Digits == <<"0","1","2","3","4","5","6","7","8","9">>

\* str(n) for n >= 0
RECURSIVE Str(_)
Str(n) == IF n < 10 THEN <<Digits[n + 1]>>
          ELSE Str(n \div 10) \o <<Digits[(n % 10) + 1]>>

\* "--- Page <n> ---"
MarkerLine(n) ==
  <<"-","-","-"," ","P","a","g","e"," ">> \o Str(n) \o <<" ","-","-","-">>

\* f"\n\n--- Page {page_num} ---\n"
PageHeader_Separator(n) ==
  IF n = 1 THEN <<>> ELSE <<"\n", "\n">> \o MarkerLine(n) \o <<"\n">>

PageHeader(n) == <<"\n", "\n">> \o MarkerLine(n) \o <<"\n">>

Take(s, n) == SubSeq(s, 1, IF n < Len(s) THEN n ELSE Len(s))

StartsWithAt(s, i, p) ==
  /\ i + Len(p) - 1 <= Len(s)
  /\ \A j \in 1..Len(p) : s[i + j - 1] = p[j]

\* pdf_text[:500] + "..." if len(pdf_text) > 500 else pdf_text
Preview_Inclusive(text) ==
  IF Len(text) >= PreviewCap THEN Take(text, PreviewCap) \o Ellipsis ELSE text

Preview(text) ==
  IF Len(text) > PreviewCap THEN Take(text, PreviewCap) \o Ellipsis ELSE text

\* text.replace("...", ""): Python scans left to right and removes
\* non-overlapping occurrences.  Because the pattern is one character
\* repeated, the scan matches at i exactly when three dots start at i and
\* the number of dots directly before i is a multiple of three.  Written
\* this way (and assembled by halving) to keep the evaluation depth
\* logarithmic in the text length.
DotsBefore(s, i) ==
  CHOOSE n \in 0..(i - 1) :
    /\ \A k \in 1..n : s[i - k] = "."
    /\ (n = i - 1 \/ s[i - n - 1] # ".")

MatchStart(s, i) == StartsWithAt(s, i, Ellipsis) /\ DotsBefore(s, i) % 3 = 0

Removed(s, i) ==
  s[i] = "." /\ \E d \in 0..2 : i - d >= 1 /\ MatchStart(s, i - d)

RECURSIVE KeepRange(_, _, _)
KeepRange(s, lo, hi) ==
  IF lo > hi THEN <<>>
  ELSE IF lo = hi THEN (IF Removed(s, lo) THEN <<>> ELSE <<s[lo]>>)
  ELSE LET mid == (lo + hi) \div 2
       IN  KeepRange(s, lo, mid) \o KeepRange(s, mid + 1, hi)

StripEllipsis(s) == KeepRange(s, 1, Len(s))

\* the return value of extract_text_with_claude for an API outcome
extract_text_with_claude_Bare(api) ==
  IF api = "ok" THEN OkText ELSE ExcDetail

extract_text_with_claude(api) ==
  IF api = "ok" THEN OkText ELSE ErrorPrefix \o ExcDetail

\* --------------------------------------------------------------- the state
VARIABLES
  pc,            \* position of the run of main()
  pages_left,    \* pages in the uploaded files the loop has not reached yet
  nfiles,        \* len(uploaded_files)
  idx,           \* 1-based position of the document loop (enumerate index + 1)
  pdf_file,      \* the file of the current iteration: [name, page_count]
  pdf_document,  \* the fitz handle of the last pdf_to_images call
  images,        \* the value pdf_to_images returned
  page_num,      \* page loop counter (enumerate(images, 1))
  pdf_text,      \* the per-document text accumulated by the page loop
  results,       \* the list of report entries
  full_texts,    \* history: pdf_text as it was when entry i was appended
  report_docs,   \* history: the document position each entry came from
  rasterized,    \* history: what pdf_to_images returned for document 1, 2, ...
  calls,         \* history: the extraction calls issued, in order
  widget_keys,   \* the st.text_area widgets registered in this run
  ui_errors,     \* documents whose expander shows an st.error message
  csv,           \* rows of the exported table (header first)
  full_views     \* the texts shown in the "Full Text" blocks

vars == <<pc, pages_left, nfiles, idx, pdf_file, pdf_document, images,
          page_num, pdf_text, results, full_texts, report_docs, rasterized,
          calls, widget_keys, ui_errors, csv, full_views>>

\* Python's None as the value returned by pdf_to_images (images are numbered
\* from 1, so this is no image list).
None == <<0>>

\* page_count of a byte stream fitz.open cannot open
NotAPdf == 0 - 1

NoFile == [name |-> "", page_count |-> NotAPdf]

\* `if images:` -- None and the empty list are both falsy
Truthy_AnyList(imgs) == imgs # <<>>

Truthy(imgs) == imgs # None /\ imgs # <<>>

\* len(uploaded_files) > 5
OverCap_Inclusive(n) == n >= MaxFiles

OverCap(n) == n > MaxFiles

Init ==
  /\ pc = "start"
  /\ \/ nfiles \in 0..MaxDocs /\ pages_left = MaxCalls
     \/ nfiles \in (MaxDocs + 1)..MaxUpload /\ pages_left = BigRunPages
  /\ idx = 0
  /\ pdf_file = NoFile
  /\ pdf_document = "none"
  /\ images = <<>>
  /\ page_num = 0
  /\ pdf_text = <<>>
  /\ results = <<>>
  /\ full_texts = <<>>
  /\ report_docs = <<>>
  /\ rasterized = <<>>
  /\ calls = <<>>
  /\ widget_keys = {}
  /\ ui_errors = {}
  /\ csv = <<>>
  /\ full_views = <<>>

\* ------------------------------------------------------------------ main()
\* if uploaded_files and len(uploaded_files) > 5: st.error(...); return
Reject ==
  /\ pc = "start"
  /\ nfiles >= 1
  /\ OverCap(nfiles)
  /\ pc' = "rejected"
  /\ UNCHANGED <<pages_left, nfiles, idx, pdf_file, pdf_document, images,
                 page_num, pdf_text, results, full_texts, report_docs,
                 rasterized, calls, widget_keys, ui_errors, csv, full_views>>

\* if uploaded_files and st.button("Process PDFs"): results = []
ClickProcess ==
  /\ pc = "start"
  /\ nfiles >= 1
  /\ ~OverCap(nfiles)
  /\ results' = <<>>
  /\ idx' = 1
  /\ pc' = "next_file"
  /\ UNCHANGED <<pages_left, nfiles, pdf_file, pdf_document, images, page_num,
                 pdf_text, full_texts, report_docs, rasterized, calls,
                 widget_keys, ui_errors, csv, full_views>>

\* ----------------------------------------------------------- pdf_to_images
\* The call on a stream of page_count pages (NotAPdf: fitz.open raises) whose
\* page fail_at raises while it is rendered or converted (0: none does).
\* The result: the value returned, the state the fitz handle is left in,
\* and whether st.error was shown.
\*   try:  pdf_document = fitz.open(...); images = []
\*         for page_num in range(page_count): ... images.append(img)
\*         pdf_document.close(); return images
\*   except Exception as e: st.error(...); return None
pdf_to_images(page_count, fail_at) ==
  IF page_count = NotAPdf
    THEN [images |-> None, handle |-> "none", error |-> TRUE]
  ELSE IF fail_at \in 1..page_count
    THEN [images |-> None, handle |-> "open", error |-> TRUE]
  ELSE [images |-> [i \in 1..page_count |-> i], handle |-> "closed",
        error |-> FALSE]

\* for idx, pdf_file in enumerate(uploaded_files):
\*     pdf_file.seek(0); images = pdf_to_images(pdf_file)
NextFile ==
  /\ pc = "next_file"
  /\ idx <= nfiles
  /\ \E name \in Filenames, count \in NotAPdf..pages_left :
       \E fail_at \in 0..(IF count > 0 THEN count ELSE 0) :
         LET r == pdf_to_images(count, fail_at)
         IN  /\ pdf_file' = [name |-> name, page_count |-> count]
             /\ pages_left' = IF count > 0 THEN pages_left - count
                                           ELSE pages_left
             /\ images' = r.images
             /\ rasterized' = Append(rasterized, r.images)
             /\ pdf_document' = r.handle
             /\ ui_errors' = IF r.error THEN ui_errors \cup {idx} ELSE ui_errors
  /\ pc' = "check_images"
  /\ UNCHANGED <<nfiles, idx, page_num, pdf_text, results, full_texts,
                 report_docs, calls, widget_keys, csv, full_views>>

\* ------------------------------------------------------ main(), continued
\* if images: pdf_text = ""; ...   else: next document
\* The frame of pdf_to_images is gone here, and with it the name
\* pdf_document; when the iteration ends, pdf_file is dead too (the loop
\* assigns it before it is read again), so both are cleared.
CheckImages ==
  /\ pc = "check_images"
  /\ pdf_document' = "none"
  /\ IF Truthy(images)
       THEN /\ pdf_text' = <<>>
            /\ page_num' = 1
            /\ pc' = "page"
            /\ UNCHANGED <<idx, pdf_file>>
       ELSE /\ idx' = idx + 1
            /\ pdf_file' = NoFile
            /\ pc' = "next_file"
            /\ UNCHANGED <<pdf_text, page_num>>
  /\ UNCHANGED <<pages_left, nfiles, images, results, full_texts, report_docs,
                 rasterized, calls, widget_keys, ui_errors, csv, full_views>>

\* st.text_area(..., extracted_text, key=f"{pdf_file.name}_{page_num}")
\* A widget identical to one already registered in the run (same key, same
\* label, same value) raises DuplicateWidgetID in every Streamlit build.  A
\* widget that reuses a key with another value is rejected by builds that
\* check key uniqueness and accepted by builds that identify a widget by its
\* key together with its content; the dependency is not pinned, so either
\* can happen.  The exception is not caught: the run of main() ends.
WidgetKey == <<pdf_file.name, page_num>>

SameWidget(api) == [key |-> WidgetKey, value |-> api] \in widget_keys

SameKey == \E w \in widget_keys : w.key = WidgetKey

\* one iteration of `for page_num, image in enumerate(images, 1)`:
\* extracted_text = extract_text_with_claude(image, api_key,
\*     f"{pdf_file.name} - Page {page_num}", ...); st.text_area(...);
\* pdf_text += f"\n\n--- Page {page_num} ---\n{extracted_text}"
ExtractPage ==
  /\ pc = "page"
  /\ page_num <= Len(images)
  /\ \E api \in ApiOutcomes :
       /\ calls' = Append(calls, [doc |-> idx, file |-> pdf_file.name,
                                  page |-> page_num, api |-> api])
       /\ \E rejected \in BOOLEAN :
            /\ SameWidget(api) => rejected
            /\ rejected => SameKey
            /\ IF rejected
                 THEN /\ pc' = "crashed"
                      /\ UNCHANGED <<widget_keys, pdf_text, page_num>>
                 ELSE /\ widget_keys' =
                           widget_keys \cup {[key |-> WidgetKey, value |-> api]}
                      /\ pdf_text' = pdf_text \o PageHeader(page_num)
                                              \o extract_text_with_claude(api)
                      /\ page_num' = page_num + 1
                      /\ pc' = "page"
  /\ UNCHANGED <<pages_left, nfiles, idx, pdf_file, pdf_document, images,
                 results, full_texts, report_docs, rasterized, ui_errors,
                 csv, full_views>>

\* {"Filename": pdf_file.name, "Pages": len(images), "Extracted Text": ...}
ReportEntry ==
  [Filename |-> pdf_file.name, Pages |-> Len(images), Text |-> Preview(pdf_text)]

\* results.append(entry)
AddEntry_Front(rs, e) == <<e>> \o rs

AddEntry(rs, e) == Append(rs, e)

AppendResult ==
  /\ pc = "page"
  /\ page_num > Len(images)
  /\ results' = AddEntry(results, ReportEntry)
  /\ full_texts' = Append(full_texts, pdf_text)
  /\ report_docs' = Append(report_docs, idx)
  /\ idx' = idx + 1
  /\ pdf_file' = NoFile
  /\ pc' = "next_file"
  /\ UNCHANGED <<pages_left, nfiles, pdf_document, images, page_num, pdf_text,
                 rasterized, calls, widget_keys, ui_errors, csv, full_views>>

\* df = pd.DataFrame(results); df.to_csv(index=False): a header row, then one
\* row per entry in list order
CsvHeader == <<"Filename", "Pages", "Extracted Text">>

CsvRow(r) == <<r.Filename, Str(r.Pages), r.Text>>

ToCsv(rs) == <<CsvHeader>> \o [i \in 1..Len(rs) |-> CsvRow(rs[i])]

\* next((r["Extracted Text"] for r in results if r["Filename"] == name), "")
Lookup(rs, name) ==
  IF \E i \in 1..Len(rs) : rs[i].Filename = name
    THEN rs[CHOOSE i \in 1..Len(rs) :
              /\ rs[i].Filename = name
              /\ \A j \in 1..(i - 1) : rs[j].Filename # name].Text
    ELSE <<>>

\* st.text_area("Full text", full_text.replace("...", ""), key=f"full_{idx}")
FullView(rs, i) == StripEllipsis(Lookup(rs, rs[i].Filename))

\* after the loop: if results: summary table, CSV, full-text blocks
Export ==
  /\ pc = "next_file"
  /\ idx > nfiles
  /\ IF results # <<>>
       THEN /\ csv' = ToCsv(results)
            /\ full_views' = [i \in 1..Len(results) |-> FullView(results, i)]
       ELSE UNCHANGED <<csv, full_views>>
  /\ pc' = "done"
  /\ UNCHANGED <<pages_left, nfiles, idx, pdf_file, pdf_document, images,
                 page_num, pdf_text, results, full_texts, report_docs,
                 rasterized, calls, widget_keys, ui_errors>>

Next ==
  \/ Reject
  \/ ClickProcess
  \/ NextFile
  \/ CheckImages
  \/ ExtractPage
  \/ AppendResult
  \/ Export

Spec == Init /\ [][Next]_vars

\* ------------------------------------------------- vocabulary of the claims
Entries == 1..Len(results)

Docs == 1..Len(rasterized)

\* the iteration of document d is over
Finished(d) == d < idx

HasCall(d, n) == \E k \in 1..Len(calls) : calls[k].doc = d /\ calls[k].page = n

CallOf(d, n) ==
  calls[CHOOSE k \in 1..Len(calls) : calls[k].doc = d /\ calls[k].page = n]

HasEntry(d) == \E i \in Entries : report_docs[i] = d

\* the text the page loop has produced for the document of call k: the
\* entry's full text once the document is finished, pdf_text before
TextOfDoc(d) ==
  IF HasEntry(d) THEN full_texts[CHOOSE i \in Entries : report_docs[i] = d]
  ELSE pdf_text

\* number of "--- Page <n> ---" markers in a text
MarkerCount(text) ==
  Cardinality({i \in 1..Len(text) :
                 /\ text[i] = "-"
                 /\ \E n \in 1..(Len(calls) + 1) :
                      StartsWithAt(text, i, MarkerLine(n))})

\* the position at which marker n starts in a text (0: nowhere)
MarkerPos(text, n) ==
  IF \E i \in 1..Len(text) : text[i] = "-" /\ StartsWithAt(text, i, MarkerLine(n))
    THEN CHOOSE i \in 1..Len(text) :
           text[i] = "-" /\ StartsWithAt(text, i, MarkerLine(n))
    ELSE 0

\* the response text of call (d, n) as the claims describe it
RECURSIVE PagesText(_, _)
PagesText(d, n) ==
  IF n = 0 THEN <<>>
  ELSE PagesText(d, n - 1) \o <<"\n", "\n">> \o MarkerLine(n) \o <<"\n">>
         \o (IF CallOf(d, n).api = "raise" THEN ErrorPrefix \o ExcDetail
             ELSE OkText)

\* ------------------------------------------------------------------ claims

\* C1: a run submitted with more than 5 documents is rejected before any
\* processing begins (nothing rasterized, no extraction call, no report
\* entry, nothing exported); a run with 1..5 documents is never rejected,
\* and when it completes every one of its documents has been rasterized.
C1_InputCap ==
  /\ nfiles > 5 =>
       /\ pc \in {"start", "rejected"}
       /\ rasterized = <<>> /\ calls = <<>> /\ results = <<>>
       /\ ui_errors = {} /\ csv = <<>> /\ full_views = <<>>
  /\ nfiles <= 5 => pc # "rejected"
  /\ pc = "done" => Len(rasterized) = nfiles

C1_Rejected == pc = "rejected" /\ nfiles = 6

C3_MarkersBetween ==
  \A i \in Entries : MarkerCount(full_texts[i]) = results[i].Pages - 1

\* C3 (amended): the full text of a P-page document is, for n = 1..P in
\* ascending order, the header "\n\n--- Page n ---\n" followed by the text
\* of page n: P markers, one before every page text, the first page included.
C3_MarkerPerPage ==
  \A i \in Entries :
    (pc = "done" \/ i = Len(results)) =>
      /\ results[i].Pages >= 1
      /\ MarkerCount(full_texts[i]) = results[i].Pages
      /\ full_texts[i] = PagesText(report_docs[i], results[i].Pages)
      /\ \A n \in 1..(results[i].Pages - 1) :
           MarkerPos(full_texts[i], n) < MarkerPos(full_texts[i], n + 1)

C3_MultiPageEntry == \E i \in Entries : results[i].Pages >= 2

\* C4: the preview of an entry is the full text when it has at most 500
\* characters, else its first 500 characters followed by "..."; projecting
\* a preview again gives the same preview.
C4_PreviewTruncation ==
  \A i \in Entries :
    (pc = "done" \/ i = Len(results)) =>
      LET full == full_texts[i]
          shown == results[i].Text
      IN  /\ Len(full) <= 500 => shown = full
          /\ Len(full) > 500 =>
               shown = SubSeq(full, 1, 500) \o <<".", ".", ".">>
          /\ Preview(shown) = shown

C4_TruncatedAndWhole ==
  /\ pc = "done"
  /\ \E i \in Entries : Len(full_texts[i]) > 500
  /\ \E i \in Entries : Len(full_texts[i]) <= 500

\* C5 (as stated): the full-text block of every document shows its
\* untruncated concatenated text, dots inside page texts included.
C5_FullTextView ==
  pc = "done" =>
    /\ Len(full_views) = Len(results)
    /\ \A i \in Entries : full_views[i] = full_texts[i]

C7_ZeroPageEntry ==
  \A d \in Docs :
    rasterized[d] = <<>> /\ Finished(d) =>
      \E i \in Entries :
        /\ report_docs[i] = d
        /\ results[i].Pages = 0
        /\ results[i].Text = <<>>

\* C8: extraction calls are issued document by document in upload order
\* and, within a document, page by page from 1 upward with none skipped;
\* a document's calls start only after the previous document's last page;
\* entries and exported rows follow the same document order.
C8_ProcessingOrder ==
  /\ \A k \in 1..Len(calls) :
       IF k > 1 /\ calls[k - 1].doc = calls[k].doc
         THEN calls[k].page = calls[k - 1].page + 1
         ELSE /\ calls[k].page = 1
              /\ k > 1 => /\ calls[k - 1].doc < calls[k].doc
                          /\ calls[k - 1].page = Len(rasterized[calls[k - 1].doc])
  /\ \A i \in Entries :
       /\ i > 1 => report_docs[i - 1] < report_docs[i]
       /\ HasCall(report_docs[i], 1)
       /\ results[i].Filename = CallOf(report_docs[i], 1).file
       /\ results[i].Pages = Len(rasterized[report_docs[i]])
  /\ pc = "done" /\ results # <<>> =>
       /\ Len(csv) = Len(results) + 1
       /\ csv[1] = <<"Filename", "Pages", "Extracted Text">>
       /\ \A i \in Entries :
            /\ csv[i + 1][1] = results[i].Filename
            /\ csv[i + 1][3] = results[i].Text

C8_TwoEntriesExported ==
  /\ pc = "done"
  /\ Len(results) >= 2
  /\ results[1].Filename # results[2].Filename
  /\ \E i \in Entries : results[i].Pages >= 2

\* C9 (as stated): no call of pdf_to_images returns with the decoder handle
\* it opened still open.
C9_DecoderReleased == pc = "check_images" => pdf_document # "open"

\* C10 (as stated): the i-th full-text block shows the text stored in the
\* i-th report entry (with the ellipsis marker stripped).
C10_OwnText ==
  pc = "done" =>
    \A i \in Entries :
      /\ i \in DOMAIN full_views
      /\ full_views[i] = StripEllipsis(results[i].Text)

====
